---- MODULE Spec2Model ----
(***************************************************************************)
(* Bundle routing of gdsfactory/routing/get_bundle_u.py: the direct        *)
(* U-bundle router (get_bundle_udirect, _get_bundle_udirect_waypoints)     *)
(* and the indirect one (_get_bundle_uindirect_waypoints).                 *)
(*                                                                         *)
(* Coordinates and lengths are integers in units of 0.01 um, so that the   *)
(* default straight length 0.01 is 1, a separation of 5 um is 500 and a    *)
(* port at y = 10 um has y = 1000.                                         *)
(*                                                                         *)
(* A Python list is a sequence; index i of the code is index i + 1 here.   *)
(* The caller's two list objects are the variables ports1 and ports2: a    *)
(* router that sorts the list it was handed changes the variable.          *)
(***************************************************************************)
EXTENDS Integers, Sequences, FiniteSets, TLC

\* Largest number of ports in one port set of a request.
MaxN == 2

\* Default of start_straight_length / end_straight_length (0.01 um).
DefaultStraightLength == 1

\* Positions the start ports and the end ports of a request are drawn from
\* (bundle along x; transposed for a bundle along y).
Pts1 == {<<0, 0>>, <<0, 1000>>, <<0, 2000>>, <<1000, 500>>}
Pts2 == {<<10000, 0>>, <<10000, 1000>>, <<10000, 2000>>, <<9000, 500>>}

\* Orientation of a port set: <<o, FALSE>> every port has orientation o,
\* <<o, TRUE>> the last port is turned by 90 degrees (a mixed set).
Profiles == {<<0, FALSE>>, <<90, FALSE>>, <<180, FALSE>>, <<270, FALSE>>, <<0, TRUE>>, <<180, TRUE>>}

Separations == {500}
StartStraightLengths == {DefaultStraightLength}
EndStraightLengths == {DefaultStraightLength, 1500, 20000}

VARIABLES ports1, ports2, params, last

vars == <<ports1, ports2, params, last>>

----------------------------------------------------------------------------
\* Python helpers

Range(l) == {l[i] : i \in DOMAIN l}

min(S) == CHOOSE m \in S : \A e \in S : m <= e

max(S) == CHOOSE m \in S : \A e \in S : m >= e

abs(v) == IF v < 0 THEN -v ELSE v

center(p) == <<p.x, p.y>>

\* The sort keys of the module: lambda p: p.y, -p.y, p.x, -p.x.
key_of(p, key) ==
    CASE key = "y" -> p.y
      [] key = "-y" -> 0 - p.y
      [] key = "x" -> p.x
      [] key = "-x" -> 0 - p.x

\* list.sort(key=...): ascending on the key and stable.
sort(l, key) ==
    LET before(j, i) == \/ key_of(l[j], key) < key_of(l[i], key)
                        \/ (key_of(l[j], key) = key_of(l[i], key) /\ j < i)
        rank(i) == 1 + Cardinality({j \in DOMAIN l : before(j, i)})
    IN [k \in DOMAIN l |-> l[CHOOSE i \in DOMAIN l : rank(i) = k]]

\* l[start:stop] for 0 <= start, stop: the bounds are clamped to the list.
slice(l, start, stop) ==
    SubSeq(l, min({start, Len(l)}) + 1, min({stop, Len(l)}))

----------------------------------------------------------------------------
\* Collaborators

\* generate_manhattan_waypoints: a path from p_start to p_end; its first
\* point is the position of p_start and its last the position of p_end.
routing_func(p_start, p_end, start_straight_length, end_straight_length) ==
    <<center(p_start), center(p_end)>>

----------------------------------------------------------------------------
\* _groups. cut carries twice the value of the code (0.5 * (min + max) need
\* not be an integer), so p.y <= cut of the code is 2 * p.y <= cut here.

\* The split with < for <=: a port exactly on the cut goes to group2.
_groups_strict(ports, cut, axis) ==
    IF axis = "Y"
    THEN [group1 |-> SelectSeq(ports, LAMBDA p : 2 * p.x < cut),
          group2 |-> SelectSeq(ports, LAMBDA p : 2 * p.x >= cut)]
    ELSE [group1 |-> SelectSeq(ports, LAMBDA p : 2 * p.y < cut),
          group2 |-> SelectSeq(ports, LAMBDA p : 2 * p.y >= cut)]

_groups(ports, cut, axis) ==
    IF axis = "Y"
    THEN [group1 |-> SelectSeq(ports, LAMBDA p : 2 * p.x <= cut),
          group2 |-> SelectSeq(ports, LAMBDA p : 2 * p.x > cut)]
    ELSE [group1 |-> SelectSeq(ports, LAMBDA p : 2 * p.y <= cut),
          group2 |-> SelectSeq(ports, LAMBDA p : 2 * p.y > cut)]

----------------------------------------------------------------------------
\* _get_bundle_udirect_waypoints

\* One routing loop (lines 261-271, 275-285): zip(group, end_group), one
\* routing_func call per pair, both straight lengths raised by separation
\* after each call. The result is the list of the calls' arguments.
RECURSIVE route_group(_, _, _, _, _)

\* The loop without its two "+= separation" lines: every track of a group
\* gets the base lengths.
RECURSIVE route_group_flat(_, _, _, _, _)
route_group_flat(group, end_group, straight_len_start, straight_len_end, separation) ==
    IF group = <<>> \/ end_group = <<>>
    THEN <<>>
    ELSE <<[p_start |-> Head(group), p_end |-> Head(end_group),
            start_straight_length |-> straight_len_start,
            end_straight_length |-> straight_len_end]>>
         \o route_group_flat(Tail(group), Tail(end_group),
                             straight_len_start, straight_len_end, separation)

route_group(group, end_group, straight_len_start, straight_len_end, separation) ==
    IF group = <<>> \/ end_group = <<>>
    THEN <<>>
    ELSE <<[p_start |-> Head(group), p_end |-> Head(end_group),
            start_straight_length |-> straight_len_start,
            end_straight_length |-> straight_len_end]>>
         \o route_group(Tail(group), Tail(end_group),
                        straight_len_start + separation,
                        straight_len_end + separation, separation)

\* The count check with > for !=: too few end ports go unnoticed.
udirect_count_mismatch_gt(p1, p2) == Len(p2) > Len(p1)

\* len(ports2) != nb_ports (line 187).
udirect_count_mismatch(p1, p2) == Len(p2) # Len(p1)

\* The orientation check made on each set alone.
udirect_mixed_orientation_per_set(p1, p2) ==
    \/ Cardinality({p.orientation : p \in Range(p1)}) > 1
    \/ Cardinality({p.orientation : p \in Range(p2)}) > 1

\* len({p.orientation for p in ports1 + ports2}) > 1 (line 192).
udirect_mixed_orientation(p1, p2) ==
    Cardinality({p.orientation : p \in Range(p1 \o p2)}) > 1

\* An exception raised by the direct router before it touched anything.
udirect_raise(status, ports2_arg) ==
    [status |-> status, connections |-> <<>>, calls |-> <<>>,
     ports2_arg |-> ports2_arg, nb_group1 |-> 0, offset |-> 0,
     group1 |-> <<>>, group2 |-> <<>>, end_group1 |-> <<>>, end_group2 |-> <<>>]

\* The bundle axis of the start orientation (lines 207-214).
udirect_axis(angle_start) == IF angle_start \in {0, 180} THEN "X" ELSE "Y"

\* Twice the cut: x_cut or y_cut of lines 200-214, over the end ports.
udirect_cut(p2, axis) ==
    LET perp == {IF axis = "X" THEN p.y ELSE p.x : p \in Range(p2)}
    IN min(perp) + max(perp)

\* The sort keys on the perpendicular coordinate of the axis.
ascending(axis) == IF axis = "X" THEN "y" ELSE "x"

descending(axis) == IF axis = "X" THEN "-y" ELSE "-x"

\* dx or dy of lines 229-251: taken between the first port of ports1 and
\* the first port of ports2, as the call finds the two lists.
udirect_offset(p1, p2) ==
    CASE p1[1].orientation = 0 -> p1[1].x - p2[1].x
      [] p1[1].orientation = 180 -> p2[1].x - p1[1].x
      [] p1[1].orientation = 90 -> p1[1].y - p2[1].y
      [] p1[1].orientation = 270 -> p2[1].y - p1[1].y

\* Lines 258-287: the two routing loops and the returned list.
udirect_connections(group1, group2, end_group1, end_group2, ports2_sorted, calls1, calls2) ==
    [status |-> "ok",
     connections |-> [k \in DOMAIN (calls1 \o calls2) |->
                         routing_func((calls1 \o calls2)[k].p_start,
                                      (calls1 \o calls2)[k].p_end,
                                      (calls1 \o calls2)[k].start_straight_length,
                                      (calls1 \o calls2)[k].end_straight_length)],
     calls |-> calls1 \o calls2,
     ports2_arg |-> ports2_sorted,
     nb_group1 |-> Len(calls1), offset |-> 0,
     group1 |-> group1, group2 |-> group2,
     end_group1 |-> end_group1, end_group2 |-> end_group2]

\* The two loops without lines 273-274: group2 goes on from the lengths
\* group1 ended with.
udirect_loops_running(group1, group2, end_group1, end_group2, ports2_sorted, separation, start_len, end_len) ==
    udirect_connections(group1, group2, end_group1, end_group2, ports2_sorted,
        route_group(group1, end_group1, start_len, end_len, separation),
        route_group(group2, end_group2, start_len + Len(group1) * separation,
                    end_len + Len(group1) * separation, separation))

udirect_loops(group1, group2, end_group1, end_group2, ports2_sorted, separation, start_len, end_len) ==
    udirect_connections(group1, group2, end_group1, end_group2, ports2_sorted,
        route_group(group1, end_group1, start_len, end_len, separation),
        route_group(group2, end_group2, start_len, end_len, separation))

\* The cut of ports2 made one port late: ports2[: len(group1) + 1] and
\* ports2[len(group1) + 1 :].
udirect_end_groups_late(group1, group2, ports2_sorted, axis, separation, start_len, end_len) ==
    udirect_loops(group1, group2,
        slice(ports2_sorted, 0, Len(group1) + 1),
        sort(slice(ports2_sorted, Len(group1) + 1, Len(ports2_sorted)), descending(axis)),
        ports2_sorted, separation, start_len, end_len)

\* Lines 224-227 and 241-244: ports2 is sorted in place, then cut into the
\* end ports of group1 and, sorted the other way, the end ports of group2.
udirect_end_groups(group1, group2, ports2_sorted, axis, separation, start_len, end_len) ==
    udirect_loops(group1, group2,
        slice(ports2_sorted, 0, Len(group1)),
        sort(slice(ports2_sorted, Len(group1), Len(ports2_sorted)), descending(axis)),
        ports2_sorted, separation, start_len, end_len)

\* The sorts of the two groups exchanged: group1 ascending, group2
\* descending.
udirect_groups_outer(p1, p2, g, axis, separation, start_len, end_len) ==
    udirect_end_groups(sort(g.group1, ascending(axis)), sort(g.group2, descending(axis)),
                       sort(p2, ascending(axis)), axis, separation, start_len, end_len)

\* Lines 216-222 and 238-239: the split of ports1 and the sort of the groups.
udirect_groups(p1, p2, g, axis, separation, start_len, end_len) ==
    udirect_end_groups(sort(g.group1, descending(axis)), sort(g.group2, ascending(axis)),
                       sort(p2, ascending(axis)), axis, separation, start_len, end_len)

\* The result carries: status ("ok" or the exception), connections (the
\* returned list), calls (the arguments of the routing_func calls, in
\* order), ports2_arg (the content of the list object passed as ports2 when
\* the call ends), nb_group1 (the calls made for group1), offset (dx or dy
\* of lines 229-251, 0 when the call failed earlier) and the groups.
\* ports1 is only read.
_get_bundle_udirect_waypoints(p1, p2, separation, start_straight_length, end_straight_length, end_straight_offset, start_straight_offset) ==
    IF udirect_count_mismatch(p1, p2)
    THEN udirect_raise("CountMismatch", p2)
    ELSE IF udirect_mixed_orientation(p1, p2)
    THEN udirect_raise("MixedOrientation", p2)
    ELSE IF p2 = <<>>
    THEN udirect_raise("EmptySequence", p2)
    ELSE [udirect_groups(p1, p2,
              _groups(p1, udirect_cut(p2, udirect_axis(p1[1].orientation)),
                      udirect_axis(p1[1].orientation)),
              udirect_axis(p1[1].orientation), separation,
              start_straight_length + start_straight_offset,
              max({end_straight_length, udirect_offset(p1, p2)}) + end_straight_offset)
            EXCEPT !.offset = udirect_offset(p1, p2)]

----------------------------------------------------------------------------
\* get_bundle_udirect: hands its own arguments to the waypoint router, then
\* looks up the two ports of every route by position and places the route.
\* connections lists, per returned route, the ports found and the waypoints.

first_at(l, pt) == l[min({i \in DOMAIN l : center(l[i]) = pt})]

udirect_place(p1, w) ==
    [w EXCEPT !.connections =
        [k \in DOMAIN @ |->
            [port1 |-> first_at(p1, @[k][1]),
             port2 |-> first_at(w.ports2_arg, @[k][Len(@[k])]),
             waypoints |-> @[k]]]]

\* The entry point handing the caller's end_straight_length down as
\* end_straight_length, the way the indirect router does.
get_bundle_udirect_bound(p1, p2, separation, start_straight_length, end_straight_length) ==
    udirect_place(p1,
        _get_bundle_udirect_waypoints(p1, p2, separation, start_straight_length,
                                      end_straight_length, 0, 0))

get_bundle_udirect(p1, p2, separation, start_straight_length, end_straight_length) ==
    udirect_place(p1,
        _get_bundle_udirect_waypoints(p1, p2, separation, start_straight_length,
                                      DefaultStraightLength, end_straight_length, 0))

----------------------------------------------------------------------------
\* route_ports_to_side: extends every port of the group toward one side and
\* returns, in the order of the group, one fragment per port and the new
\* frontier ports, whose orientation is the side's direction. The frontier
\* lies SideClearance beyond the port in that direction.

SideClearance == 20000

side_angle(side) ==
    CASE side = "east" -> 0
      [] side = "north" -> 90
      [] side = "west" -> 180
      [] side = "south" -> 270

side_port(p, side) ==
    LET dx == CASE side = "east" -> SideClearance
                [] side = "west" -> 0 - SideClearance
                [] OTHER -> 0
        dy == CASE side = "north" -> SideClearance
                [] side = "south" -> 0 - SideClearance
                [] OTHER -> 0
    IN [x |-> p.x + dx, y |-> p.y + dy, orientation |-> side_angle(side)]

route_ports_to_side(ports, side) ==
    [conns |-> [i \in DOMAIN ports |-> <<center(ports[i]), center(side_port(ports[i], side))>>],
     ports |-> [i \in DOMAIN ports |-> side_port(ports[i], side)]]

\* remove_identicals: drops a point equal to the point before it.
RECURSIVE remove_identicals(_)
remove_identicals(pts) ==
    IF Len(pts) < 2 THEN pts
    ELSE LET rest == remove_identicals(Tail(pts))
         IN IF pts[1] = pts[2] THEN rest ELSE <<pts[1]>> \o rest

sign(v) == IF v < 0 THEN -1 ELSE IF v > 0 THEN 1 ELSE 0

\* The path goes straight on at b: the segment from a to b and the segment
\* from b to c are collinear and point the same way.
flat_angle(a, b, c) ==
    /\ (b[1] - a[1]) * (c[2] - b[2]) = (b[2] - a[2]) * (c[1] - b[1])
    /\ sign(b[1] - a[1]) = sign(c[1] - b[1])
    /\ sign(b[2] - a[2]) = sign(c[2] - b[2])

\* remove_flat_angles: drops every interior point at which the path does
\* not turn.
RECURSIVE remove_flat_angles(_)
remove_flat_angles(pts) ==
    IF Len(pts) < 3 THEN pts
    ELSE IF flat_angle(pts[1], pts[2], pts[3])
         THEN remove_flat_angles(<<pts[1]>> \o Tail(Tail(pts)))
         ELSE <<pts[1]>> \o remove_flat_angles(Tail(pts))

----------------------------------------------------------------------------
\* _get_bundle_uindirect_waypoints

\* len(ports2) != nb_ports (line 393).
uindirect_count_mismatch(p1, p2) == Len(p2) # Len(p1)

\* The plans with the second direction of group2 turned round.
route_directives_turned(o1, o2) ==
    CASE o1 = 0 /\ o2 = 180 -> [group1 |-> <<"north", "west">>, group2 |-> <<"south", "east">>]
      [] o1 = 180 /\ o2 = 0 -> [group1 |-> <<"north", "east">>, group2 |-> <<"south", "west">>]
      [] o1 = 90 /\ o2 = 270 -> [group1 |-> <<"east", "south">>, group2 |-> <<"west", "north">>]
      [] o1 = 270 /\ o2 = 90 -> [group1 |-> <<"east", "north">>, group2 |-> <<"west", "south">>]
      [] OTHER -> [group1 |-> <<>>, group2 |-> <<>>]

\* The side-routing plan of the orientation pair (lines 419-476); no plan
\* is bound for any other pair (the code prints a message there).
route_directives(o1, o2) ==
    CASE o1 = 0 /\ o2 = 180 -> [group1 |-> <<"north", "west">>, group2 |-> <<"south", "west">>]
      [] o1 = 180 /\ o2 = 0 -> [group1 |-> <<"north", "east">>, group2 |-> <<"south", "east">>]
      [] o1 = 90 /\ o2 = 270 -> [group1 |-> <<"east", "south">>, group2 |-> <<"west", "south">>]
      [] o1 = 270 /\ o2 = 90 -> [group1 |-> <<"east", "north">>, group2 |-> <<"west", "north">>]
      [] OTHER -> [group1 |-> <<>>, group2 |-> <<>>]

\* np.abs(p - q).sum() < 1e-9, exact on integer coordinates.
same_point(p, q) == abs(p[1] - q[1]) + abs(p[2] - q[2]) = 0

\* add_connections: every fragment of the batch is appended to the first
\* route (in key order) whose last point, taken before the batch, is the
\* fragment's first point; a fragment that matches no route is skipped.
RECURSIVE add_connections_from(_, _, _)
add_connections_from(dict_connections, end_prev_conns, conns) ==
    IF conns = <<>>
    THEN dict_connections
    ELSE LET c == Head(conns)
             hits == {i \in DOMAIN end_prev_conns : same_point(c[1], end_prev_conns[i])}
         IN add_connections_from(
                IF hits = {} THEN dict_connections
                ELSE [dict_connections EXCEPT ![min(hits)] = Append(@, c)],
                end_prev_conns, Tail(conns))

add_connections(dict_connections, conns) ==
    LET last_conn(i) == dict_connections[i][Len(dict_connections[i])]
        end_prev_conns == [i \in DOMAIN dict_connections |-> last_conn(i)[Len(last_conn(i))]]
    IN add_connections_from(dict_connections, end_prev_conns, conns)

RECURSIVE vstack(_)
vstack(a) == IF a = <<>> THEN <<>> ELSE Head(a) \o vstack(Tail(a))

_merge_connections(list_of_points) ==
    LET a == <<list_of_points[1]>>
             \o [k \in 1..(Len(list_of_points) - 1) |-> Tail(list_of_points[k + 1])]
    IN remove_flat_angles(remove_identicals(vstack(a)))

\* The router without the copy: its list is the caller's list.
caller_list_aliased(arg, local) == local

\* The content of the caller's list object while the router works on
\* `local`: the router rebinds its parameter to a copy (lines 390-391), so
\* what it does to `local` does not reach the caller's list.
caller_list(arg, local) == arg

\* An exception raised by the indirect router.
uindirect_raise(status, printed, side_calls, direct, p1, p2) ==
    [status |-> status, printed |-> printed, connections |-> <<>>,
     dict_connections |-> <<>>, side_calls |-> side_calls, direct |-> direct,
     group1 |-> <<>>, group2 |-> <<>>,
     ports1_arg |-> p1, ports2_arg |-> p2]

\* Lines 570-571: every route's fragments merged.
uindirect_return(p1, arg2, dict_connections, direct) ==
    [status |-> "ok", printed |-> FALSE,
     connections |-> [i \in DOMAIN dict_connections |->
                         _merge_connections(dict_connections[i])],
     dict_connections |-> dict_connections,
     side_calls |-> 4, direct |-> direct,
     group1 |-> <<>>, group2 |-> <<>>,
     ports1_arg |-> p1, ports2_arg |-> arg2]

\* Lines 545-560: run1 and run2 hold the result of the nested direct call
\* of group1 and of group2, or nothing when the group has no port.
uindirect_collect(p1, arg2, dict_connections, run1, run2) ==
    IF run1 # <<>> /\ run1[1].status # "ok"
    THEN uindirect_raise(run1[1].status, FALSE, 4, run1, p1, arg2)
    ELSE IF run2 # <<>> /\ run2[1].status # "ok"
    THEN uindirect_raise(run2[1].status, FALSE, 4, run1 \o run2, p1, arg2)
    ELSE IF run1 \o run2 = <<>>
    THEN uindirect_raise("NoConnections", FALSE, 4, <<>>, p1, arg2)
    ELSE uindirect_return(p1, arg2,
             add_connections(dict_connections,
                 IF Len(run1 \o run2) > 1
                 THEN run1[1].connections \o run2[1].connections
                 ELSE (run1 \o run2)[1].connections),
             run1 \o run2)

\* The third stage without the tests of lines 545 and 550: the direct
\* router is called for both groups, ports or not.
uindirect_direct_always(p1, p2, dict_connections, tmp_ports1, tmp_ports2, ports2_sorted, separation, start_straight_length, end_straight_length) ==
    uindirect_collect(p1, caller_list(p2, ports2_sorted), dict_connections,
        <<_get_bundle_udirect_waypoints(
              tmp_ports1, slice(ports2_sorted, 0, Len(tmp_ports1)),
              separation, start_straight_length, end_straight_length, 0, 0)>>,
        <<_get_bundle_udirect_waypoints(
              tmp_ports2, slice(ports2_sorted, Len(tmp_ports1), Len(ports2_sorted)),
              separation, start_straight_length, end_straight_length, 0, 0)>>)

\* Lines 537-554: ports2 (the copy) sorted on y, then one direct call per
\* group that has ports, on a slice of the sorted copy.
uindirect_direct(p1, p2, dict_connections, tmp_ports1, tmp_ports2, ports2_sorted, separation, start_straight_length, end_straight_length) ==
    uindirect_collect(p1, caller_list(p2, ports2_sorted), dict_connections,
        IF tmp_ports1 # <<>>
        THEN <<_get_bundle_udirect_waypoints(
                   tmp_ports1, slice(ports2_sorted, 0, Len(tmp_ports1)),
                   separation, start_straight_length, end_straight_length, 0, 0)>>
        ELSE <<>>,
        IF tmp_ports2 # <<>>
        THEN <<_get_bundle_udirect_waypoints(
                   tmp_ports2, slice(ports2_sorted, Len(tmp_ports1), Len(ports2_sorted)),
                   separation, start_straight_length, end_straight_length, 0, 0)>>
        ELSE <<>>)

\* Lines 526-535: the second side routing and its fragments.
uindirect_second(p1, p2, dict_connections, side1, side2, separation, start_straight_length, end_straight_length) ==
    uindirect_direct(p1, p2, add_connections(dict_connections, side1.conns \o side2.conns),
                     side1.ports, side2.ports, sort(p2, "y"),
                     separation, start_straight_length, end_straight_length)

\* Lines 508-524: the first side routing; route i is fragment i of
\* conn1 + conn2.
uindirect_first(p1, p2, side1, side2, plan, separation, start_straight_length, end_straight_length) ==
    uindirect_second(p1, p2,
        [i \in DOMAIN (side1.conns \o side2.conns) |-> <<(side1.conns \o side2.conns)[i]>>],
        route_ports_to_side(side1.ports, plan.group1[2]),
        route_ports_to_side(side2.ports, plan.group2[2]),
        separation, start_straight_length, end_straight_length)

\* Twice y_cut (x_cut) of lines 415 and 444.
uindirect_cut(p2, axis) ==
    LET perp == {IF axis = "X" THEN p.y ELSE p.x : p \in Range(p2)}
    IN min(perp) + max(perp)

\* group1 and group2 of lines 416-417 and 445-446.
uindirect_groups(p1, cut, axis) ==
    IF axis = "X"
    THEN [group1 |-> SelectSeq(p1, LAMBDA p : 2 * p.y <= cut),
          group2 |-> SelectSeq(p1, LAMBDA p : 2 * p.y > cut)]
    ELSE [group1 |-> SelectSeq(p1, LAMBDA p : 2 * p.x <= cut),
          group2 |-> SelectSeq(p1, LAMBDA p : 2 * p.x > cut)]

\* Lines 414-522: with no plan bound the message is printed and the first
\* use of group1_route_directives fails. The groups of the split are kept
\* in the result.
uindirect_plan(p1, p2, g, plan, separation, start_straight_length, end_straight_length) ==
    [(IF plan.group1 = <<>>
      THEN uindirect_raise("UnboundLocalError", TRUE, 0, <<>>, p1, p2)
      ELSE uindirect_first(p1, p2,
               route_ports_to_side(g.group1, plan.group1[1]),
               route_ports_to_side(g.group2, plan.group2[1]),
               plan, separation, start_straight_length, end_straight_length))
        EXCEPT !.group1 = g.group1, !.group2 = g.group2]

\* The result carries: status, printed (the "not designed to work in this
\* case" message was printed), connections (the returned list),
\* dict_connections (route i of the code is entry i + 1), side_calls (how
\* many times route_ports_to_side was called), direct (the results of the
\* nested _get_bundle_udirect_waypoints calls, in order), group1 and group2
\* (the split of ports1, empty when the call failed earlier), ports1_arg and
\* ports2_arg (the content of the two list objects passed in, when the call
\* ends).
_get_bundle_uindirect_waypoints(p1, p2, separation, extension_length, start_straight_length, end_straight_length) ==
    IF uindirect_count_mismatch(p1, p2)
    THEN uindirect_raise("CountMismatch", FALSE, 0, <<>>, p1, p2)
    ELSE IF Cardinality({p.orientation : p \in Range(p1)}) > 1
    THEN uindirect_raise("MixedOrientation", FALSE, 0, <<>>, p1, p2)
    ELSE IF Cardinality({p.orientation : p \in Range(p2)}) > 1
    THEN uindirect_raise("MixedOrientation", FALSE, 0, <<>>, p1, p2)
    ELSE IF p1 = <<>>
    THEN uindirect_raise("IndexError", FALSE, 0, <<>>, p1, p2)
    ELSE uindirect_plan(p1, p2,
             uindirect_groups(p1, uindirect_cut(p2, udirect_axis(p1[1].orientation)),
                              udirect_axis(p1[1].orientation)),
             route_directives(p1[1].orientation, p2[1].orientation),
             separation, start_straight_length, end_straight_length)

----------------------------------------------------------------------------
\* State machine: a caller holding two port lists and a set of parameters
\* calls the routers on them.

Port(pt, o) == [x |-> pt[1], y |-> pt[2], orientation |-> o]

\* The lists of at most MaxN distinct points of S.
PointLists(S) ==
    UNION {{l \in [1..n -> S] : \A i, j \in 1..n : i # j => l[i] # l[j]} : n \in 0..MaxN}

Transpose(pt) == <<pt[2], pt[1]>>

PortList(pts, profile, swap) ==
    [i \in DOMAIN pts |->
        Port(IF swap THEN Transpose(pts[i]) ELSE pts[i],
             IF profile[2] /\ i = Len(pts) /\ i > 1
             THEN (profile[1] + 90) % 360 ELSE profile[1])]

NoCall == [fn |-> "none"]

InitRequest ==
    \E pts1 \in PointLists(Pts1), pts2 \in PointLists(Pts2), prof1, prof2 \in Profiles :
        /\ ports1 = PortList(pts1, prof1, prof1[1] \in {90, 270})
        /\ ports2 = PortList(pts2, prof2, prof1[1] \in {90, 270})
        /\ params \in [separation : Separations,
                       start_straight_length : StartStraightLengths,
                       end_straight_length : EndStraightLengths]

\* The worked scenario: three ports at x = 0, orientation 0, y in {0, 10, 20},
\* three at x = 100, orientation 180, y in {0, 10, 20}, separation 5; and
\* the same with the end ports at orientation 0.
ScenarioPorts1 ==
    PortList(<<<<0, 0>>, <<0, 1000>>, <<0, 2000>>>>, <<0, FALSE>>, FALSE)

ScenarioPorts2(o2) ==
    PortList(<<<<10000, 0>>, <<10000, 1000>>, <<10000, 2000>>>>, <<o2, FALSE>>, FALSE)

InitScenario ==
    /\ ports1 = ScenarioPorts1
    /\ \E o2 \in {0, 180} : ports2 = ScenarioPorts2(o2)
    /\ params = [separation |-> 500,
                 start_straight_length |-> DefaultStraightLength,
                 end_straight_length |-> DefaultStraightLength]

Init ==
    /\ last = NoCall
    /\ (InitRequest \/ InitScenario)

\* A call returns: its record is kept, and the two list objects hold what
\* the call left in them.
Return(fn, out, ports1_arg, ports2_arg) ==
    /\ last' = [fn |-> fn, ports1_before |-> ports1, ports2_before |-> ports2, out |-> out]
    /\ ports1' = ports1_arg
    /\ ports2' = ports2_arg
    /\ UNCHANGED params

ReturnUdirect(out) == Return("get_bundle_udirect", out, ports1, out.ports2_arg)

ReturnUindirect(out) == Return("get_bundle_uindirect", out, out.ports1_arg, out.ports2_arg)

\* A call of get_bundle_udirect on the caller's lists.
GetBundleUdirect ==
    ReturnUdirect(get_bundle_udirect(ports1, ports2, params.separation,
                                     params.start_straight_length,
                                     params.end_straight_length))

\* A call of _get_bundle_uindirect_waypoints on the caller's lists (the
\* lists get_bundle_uindirect passes through).
GetBundleUindirect ==
    ReturnUindirect(_get_bundle_uindirect_waypoints(ports1, ports2, params.separation, 0,
                                                    params.start_straight_length,
                                                    params.end_straight_length))

Next == GetBundleUdirect \/ GetBundleUindirect

Spec == Init /\ [][Next]_vars

----------------------------------------------------------------------------
\* State machine of the stitching (lines 524-571): the routes hold one
\* fragment each (line 524), two more batches are stitched on with
\* add_connections (lines 535 and 555-558), then every route is merged
\* (line 570). The batches are what the side router and the direct router
\* hand back: lists of fragments in no known order, drawn here from the
\* two-point fragments over StitchPoints.

StitchPoints == {<<0, 0>>, <<0, 1>>, <<1, 1>>}

StitchFragments == {<<a, b>> : a, b \in StitchPoints} \ {<<a, a>> : a \in StitchPoints}

\* The batches of n fragments.
StitchBatches(n) == [1..n -> StitchFragments]

InitStitch ==
    /\ ports1 = <<>>
    /\ ports2 = <<>>
    /\ params = [separation |-> 500,
                 start_straight_length |-> DefaultStraightLength,
                 end_straight_length |-> DefaultStraightLength]
    /\ \E n \in 1..MaxN : \E conn \in StitchBatches(n) :
          last = [fn |-> "none", batches |-> 1, status |-> "ok",
                  dict_before |-> <<>>, conns |-> conn,
                  dict_connections |-> [i \in DOMAIN conn |-> <<conn[i]>>],
                  connections |-> <<>>]

\* add_connections(conns) of line 535 or of lines 555-558. It has no
\* raise statement: the call always returns.
AddConnections ==
    /\ last.fn # "_merge_connections"
    /\ last.batches < 3
    /\ \E conns \in StitchBatches(Len(last.dict_connections)) :
          last' = [fn |-> "add_connections", batches |-> last.batches + 1,
                   status |-> "ok",
                   dict_before |-> last.dict_connections, conns |-> conns,
                   dict_connections |-> add_connections(last.dict_connections, conns),
                   connections |-> <<>>]
    /\ UNCHANGED <<ports1, ports2, params>>

\* Line 570: every route merged. _merge_connections has no raise
\* statement either.
MergeConnections ==
    /\ last.fn = "add_connections"
    /\ last.batches = 3
    /\ last' = [last EXCEPT !.fn = "_merge_connections",
                             !.connections = [i \in DOMAIN last.dict_connections |->
                                                _merge_connections(last.dict_connections[i])]]
    /\ UNCHANGED <<ports1, ports2, params>>

NextStitch == AddConnections \/ MergeConnections

SpecStitch == InitStitch /\ [][NextStitch]_vars

----------------------------------------------------------------------------
\* Properties

Udirect == last.fn = "get_bundle_udirect"

Uindirect == last.fn = "get_bundle_uindirect"

Orients(l) == {p.orientation : p \in Range(l)}

SupportedPairs == {<<0, 180>>, <<180, 0>>, <<90, 270>>, <<270, 90>>}

\* C1: a direct call that returns gives exactly N routes, and route i
\* starts at the position of the caller's ports1[i] and ends at the
\* position of the caller's ports2[i].
C1_DirectKeepsCallerOrder ==
    (Udirect /\ last.out.status = "ok") =>
        /\ Len(last.out.connections) = Len(last.ports1_before)
        /\ \A i \in DOMAIN last.out.connections :
              LET w == last.out.connections[i].waypoints
              IN /\ w[1] = center(last.ports1_before[i])
                 /\ w[Len(w)] = center(last.ports2_before[i])

\* C2: in an indirect call that returns, the route stored under index i
\* has a first fragment that starts at the caller's ports1[i] and a last
\* fragment that ends at the caller's ports2[i].
C2_IndirectKeepsCallerIndex ==
    (Uindirect /\ last.out.status = "ok") =>
        \A i \in DOMAIN last.out.dict_connections :
            LET route == last.out.dict_connections[i]
                first == route[1]
                final == route[Len(route)]
            IN /\ first[1] = center(last.ports1_before[i])
               /\ final[Len(final)] = center(last.ports2_before[i])

\* C3: after a direct call, returned or raised, the caller's ports1 and
\* ports2 hold the same ports in the same order as before the call.
C3_DirectLeavesCallerLists ==
    Udirect => (ports1 = last.ports1_before /\ ports2 = last.ports2_before)

\* C4: after an indirect call, returned or raised, the caller's ports1 and
\* ports2 hold the same ports in the same order as before the call.
C4_IndirectLeavesCallerLists ==
    Uindirect => (ports1 = last.ports1_before /\ ports2 = last.ports2_before)

\* An indirect call that returned, ran both nested direct calls, and whose
\* sort of ports2 put the ports in another order than the caller's.
C4_Witness ==
    /\ Uindirect
    /\ last.out.status = "ok"
    /\ Len(last.out.direct) = 2
    /\ sort(last.ports2_before, "y") # last.ports2_before
    /\ ports2 = last.ports2_before

\* C5: with len(ports1) # len(ports2) either router fails with the count
\* mismatch error, no side router, direct router or single-pair router was
\* called, no list was reordered and no path or fragment exists.
C5_CountMismatchFirst ==
    (last.fn # "none" /\ Len(last.ports1_before) # Len(last.ports2_before)) =>
        /\ last.out.status = "CountMismatch"
        /\ last.out.connections = <<>>
        /\ ports1 = last.ports1_before
        /\ ports2 = last.ports2_before
        /\ Udirect => last.out.calls = <<>>
        /\ Uindirect => /\ last.out.side_calls = 0
                        /\ last.out.direct = <<>>
                        /\ last.out.dict_connections = <<>>

\* A direct call with one start port and two end ports, the end ports not
\* in ascending order of y (a sort of ports2 would have reordered them),
\* that failed with the count mismatch error.
C5_Witness ==
    /\ Udirect
    /\ Len(last.ports1_before) = 1
    /\ Len(last.ports2_before) = 2
    /\ last.ports1_before[1].orientation = 0
    /\ sort(last.ports2_before, "y") # last.ports2_before
    /\ last.out.status = "CountMismatch"

\* C6 as stated: a direct call with equal counts is rejected for mixed
\* orientation exactly when ports1 holds more than one orientation or
\* ports2 holds more than one orientation.
C6_RejectsPerSet ==
    (Udirect /\ Len(last.ports1_before) = Len(last.ports2_before)) =>
        ((last.out.status = "MixedOrientation")
            <=> (\/ Cardinality(Orients(last.ports1_before)) > 1
                 \/ Cardinality(Orients(last.ports2_before)) > 1))

\* C6 amended: a direct call with equal counts is rejected for mixed
\* orientation exactly when the ports of ports1 and ports2 taken together
\* hold more than one orientation; two uniform sets that differ from one
\* another (0 against 180) are rejected.
C6_RejectsAcrossSets ==
    (Udirect /\ Len(last.ports1_before) = Len(last.ports2_before)) =>
        ((last.out.status = "MixedOrientation")
            <=> Cardinality(Orients(last.ports1_before)
                            \cup Orients(last.ports2_before)) > 1)

\* A direct call on mutually facing sets, each uniform, that was rejected.
C6_Witness ==
    /\ Udirect
    /\ Len(last.ports1_before) = 2
    /\ Orients(last.ports1_before) = {0}
    /\ Orients(last.ports2_before) = {180}
    /\ last.out.status = "MixedOrientation"

\* C7: an indirect call on two uniform sets whose orientation pair is not
\* one of the four supported fails with the unsupported-configuration
\* error, with nothing printed and no side or direct router called.
C7_UnsupportedIsAnError ==
    (/\ Uindirect
     /\ Len(last.ports1_before) = Len(last.ports2_before)
     /\ Cardinality(Orients(last.ports1_before)) = 1
     /\ Cardinality(Orients(last.ports2_before)) = 1
     /\ <<last.ports1_before[1].orientation,
          last.ports2_before[1].orientation>> \notin SupportedPairs) =>
        /\ last.out.status = "UnsupportedConfiguration"
        /\ ~last.out.printed
        /\ last.out.side_calls = 0
        /\ last.out.direct = <<>>

\* The direct router was called on the worked scenario, with the end ports
\* at orientation o2.
ScenarioCalled(o2) ==
    /\ Udirect
    /\ last.ports1_before = ScenarioPorts1
    /\ last.ports2_before = ScenarioPorts2(o2)
    /\ params.separation = 500

\* Within each group the straight lengths of successive calls grow by step.
GrowsBy(out, step) ==
    \A k \in DOMAIN out.calls :
        (k > 1 /\ k # out.nb_group1 + 1) =>
            /\ out.calls[k].start_straight_length
                   = out.calls[k - 1].start_straight_length + step
            /\ out.calls[k].end_straight_length
                   = out.calls[k - 1].end_straight_length + step

\* C8 as stated: the scenario call (end ports at 180) succeeds with three
\* paths, every start port is paired with the end port at the same y, and
\* the straight lengths grow by 5 from one track to the next in a group.
C8_ScenarioRoutes ==
    ScenarioCalled(180) =>
        /\ last.out.status = "ok"
        /\ Len(last.out.connections) = 3
        /\ \A k \in DOMAIN last.out.calls :
              last.out.calls[k].p_start.y = last.out.calls[k].p_end.y
        /\ GrowsBy(last.out, 500)

\* C8 amended: the scenario call (end ports at 180) fails with the mixed
\* orientation error, without a path and without a single-pair router
\* call. With the end ports at orientation 0 it succeeds with three paths:
\* the starts at y = 10, 0 (group1) go to the ends at y = 0, 10 and the
\* start at y = 20 (group2) to the end at y = 20, and the straight lengths
\* grow by 5 from one track to the next in a group.
C8_ScenarioRejected ==
    /\ ScenarioCalled(180) =>
          /\ last.out.status = "MixedOrientation"
          /\ last.out.connections = <<>>
          /\ last.out.calls = <<>>
    /\ ScenarioCalled(0) =>
          /\ last.out.status = "ok"
          /\ Len(last.out.connections) = 3
          /\ last.out.nb_group1 = 2
          /\ [k \in 1..3 |-> <<last.out.calls[k].p_start.y, last.out.calls[k].p_end.y>>]
                 = <<<<1000, 0>>, <<0, 1000>>, <<2000, 2000>>>>
          /\ GrowsBy(last.out, 500)

C8_Witness == ScenarioCalled(180) /\ last.out.status = "MixedOrientation"

\* Two distinct tracks of one group differ by at least separation in their
\* start straight lengths and in their end straight lengths.
TracksApart(out, separation) ==
    \A i, j \in DOMAIN out.calls :
        (i # j /\ ((i <= out.nb_group1) <=> (j <= out.nb_group1))) =>
            /\ abs(out.calls[i].start_straight_length
                   - out.calls[j].start_straight_length) >= separation
            /\ abs(out.calls[i].end_straight_length
                   - out.calls[j].end_straight_length) >= separation

\* C9: in every result of the direct router (called by the caller or
\* nested in the indirect router) with separation > 0, two distinct paths
\* of one group have start straight lengths and end straight lengths that
\* differ by at least separation.
C9_TracksOfAGroupApart ==
    /\ (Udirect /\ last.out.status = "ok" /\ params.separation > 0) =>
          TracksApart(last.out, params.separation)
    /\ (Uindirect /\ params.separation > 0) =>
          \A n \in DOMAIN last.out.direct :
              last.out.direct[n].status = "ok" =>
                  TracksApart(last.out.direct[n], params.separation)

\* A direct call that routed two tracks in one group.
C9_Witness ==
    /\ Udirect
    /\ last.out.status = "ok"
    /\ params.separation > 0
    /\ Len(last.out.calls) = 2
    /\ last.out.nb_group1 \in {0, 2}

\* C10: a direct call that follows a direct call on the same lists with
\* the same parameters returns the same list of paths, with the same
\* pairing and the same straight lengths.
C10_DirectRepeats ==
    [][(Udirect /\ last'.fn = "get_bundle_udirect") =>
          /\ last'.out.status = last.out.status
          /\ last'.out.connections = last.out.connections
          /\ last'.out.calls = last.out.calls]_vars

----------------------------------------------------------------------------
\* The split and the pairing

\* The perpendicular coordinate of a port for start ports of orientation o:
\* y for a bundle along x (0, 180), x otherwise.
Perp(p, o) == IF o \in {0, 180} THEN p.y ELSE p.x

\* Twice 0.5 * (min + max) of the perpendicular coordinates of p2.
TwiceCut(p2, o) ==
    min({Perp(q, o) : q \in Range(p2)}) + max({Perp(q, o) : q \in Range(p2)})

\* group1 and group2 split p1 at the cut of p2: group1 holds exactly the
\* ports of p1 at or below the cut, group2 exactly those above it.
SplitAtCut(p1, p2, group1, group2) ==
    /\ \A p \in Range(p1) :
          /\ (p \in Range(group1)) <=> (2 * Perp(p, p1[1].orientation) <= TwiceCut(p2, p1[1].orientation))
          /\ (p \in Range(group2)) <=> (2 * Perp(p, p1[1].orientation) > TwiceCut(p2, p1[1].orientation))
    /\ Range(group1) \cup Range(group2) \subseteq Range(p1)
    /\ Len(group1) + Len(group2) = Len(p1)

\* The request of the last call has N >= 1 ports in each list and every
\* port set is uniform in orientation.
UniformRequest ==
    /\ last.fn # "none"
    /\ Len(last.ports1_before) = Len(last.ports2_before)
    /\ Len(last.ports1_before) >= 1
    /\ Cardinality(Orients(last.ports1_before)) = 1
    /\ Cardinality(Orients(last.ports2_before)) = 1

\* C11: in both routers the split of ports1 is a partition at the cut
\* 0.5 * (min + max) of the perpendicular coordinates of ports2: a port is
\* in group1 iff its perpendicular coordinate is <= cut (a port on the cut
\* included), in group2 otherwise, and len(group1) + len(group2) = N.
C11_SplitIsPartitionAtCut ==
    /\ (Udirect /\ last.out.status = "ok") =>
          SplitAtCut(last.ports1_before, last.ports2_before,
                     last.out.group1, last.out.group2)
    /\ (Uindirect /\ UniformRequest) =>
          SplitAtCut(last.ports1_before, last.ports2_before,
                     last.out.group1, last.out.group2)

\* A direct call that returned with both groups used and a start port
\* exactly on the cut, which went to group1.
C11_Witness ==
    /\ Udirect
    /\ last.out.status = "ok"
    /\ last.out.group2 # <<>>
    /\ \E p \in Range(last.out.group1) :
          2 * Perp(p, p.orientation) = TwiceCut(last.ports2_before, p.orientation)

\* The extreme start ports of a group of calls and the extreme end ports:
\* with sameway the start port of least perpendicular coordinate is paired
\* with the end port of least coordinate and the greatest with the
\* greatest; otherwise the least with the greatest and the greatest with
\* the least.
ExtremesPaired(calls, sameway) ==
    LET o == calls[1].p_start.orientation
        starts == {Perp(calls[k].p_start, o) : k \in DOMAIN calls}
        ends == {Perp(calls[k].p_end, o) : k \in DOMAIN calls}
    IN \A k \in DOMAIN calls :
          /\ Perp(calls[k].p_start, o) = min(starts) =>
                Perp(calls[k].p_end, o) = (IF sameway THEN min(ends) ELSE max(ends))
          /\ Perp(calls[k].p_start, o) = max(starts) =>
                Perp(calls[k].p_end, o) = (IF sameway THEN max(ends) ELSE min(ends))

\* The calls of group1 and the calls of group2 of a direct result.
CallsOfGroup1(out) == SubSeq(out.calls, 1, out.nb_group1)

CallsOfGroup2(out) == SubSeq(out.calls, out.nb_group1 + 1, Len(out.calls))

GroupsPaired(out, sameway) ==
    /\ CallsOfGroup1(out) # <<>> => ExtremesPaired(CallsOfGroup1(out), sameway)
    /\ CallsOfGroup2(out) # <<>> => ExtremesPaired(CallsOfGroup2(out), sameway)

\* C12 as stated: in a direct call that returns, on each side of the cut
\* the outermost start port of the group (farthest from the cut: the
\* least coordinate in group1, the greatest in group2) is paired with the
\* outermost end port of its end group, and the innermost with the
\* innermost.
C12_OutermostWithOutermost ==
    (Udirect /\ last.out.status = "ok") => GroupsPaired(last.out, TRUE)

\* C12 amended: in every result of the direct router, on each side of the
\* cut the start port nearest the cut (the greatest coordinate of group1,
\* the least of group2) is paired with the end port of its end group
\* farthest from the cut on that side (the least coordinate of the prefix,
\* the greatest of the suffix), and the start port farthest from the cut
\* with the end port of its end group at the other end.
C12_InnermostWithOutermost ==
    /\ (Udirect /\ last.out.status = "ok") => GroupsPaired(last.out, FALSE)
    /\ Uindirect =>
          \A n \in DOMAIN last.out.direct :
              last.out.direct[n].status = "ok" => GroupsPaired(last.out.direct[n], FALSE)

\* A direct call that routed two start ports of group1: the upper start
\* port went to the lower end port.
C12_Witness ==
    /\ Udirect
    /\ last.out.status = "ok"
    /\ last.out.nb_group1 = 2
    /\ last.ports1_before[1].orientation = 0
    /\ last.out.calls[1].p_start.y > last.out.calls[2].p_start.y
    /\ last.out.calls[1].p_end.y < last.out.calls[2].p_end.y

----------------------------------------------------------------------------
\* Straight lengths

\* The position k = 0, 1, ... of call i within its group.
TrackOf(out, i) == IF i <= out.nb_group1 THEN i - 1 ELSE i - out.nb_group1 - 1

\* Every call of the result got base_start + k * separation and
\* base_end + k * separation, k counted from 0 in each group.
Staircase(out, base_start, base_end, separation) ==
    \A i \in DOMAIN out.calls :
        /\ out.calls[i].start_straight_length
               = base_start + TrackOf(out, i) * separation
        /\ out.calls[i].end_straight_length
               = base_end + TrackOf(out, i) * separation

\* The base end straight length of a call of get_bundle_udirect: the
\* default raised to the offset between the first ports, plus the caller's
\* end_straight_length.
UdirectBaseEnd ==
    max({DefaultStraightLength, udirect_offset(last.ports1_before, last.ports2_before)})
        + params.end_straight_length

\* C13: the k-th pair routed within a group is passed to the single-pair
\* router with base_start + k * separation and base_end + k * separation,
\* and k restarts at 0 for group2: the first pair of each group gets the
\* base lengths. For a call of get_bundle_udirect the bases are the ones
\* computed from the request; for a call nested in the indirect router the
\* base start is the start_straight_length handed down and the base end
\* is the end length of the first call.
C13_StaircasePerGroup ==
    /\ (Udirect /\ last.out.status = "ok") =>
          Staircase(last.out, params.start_straight_length, UdirectBaseEnd,
                    params.separation)
    /\ Uindirect =>
          \A n \in DOMAIN last.out.direct :
              last.out.direct[n].status = "ok" =>
                  Staircase(last.out.direct[n], params.start_straight_length,
                            last.out.direct[n].calls[1].end_straight_length,
                            params.separation)

\* A direct call with one pair in each group: both pairs got the base
\* lengths.
C13_Witness ==
    /\ Udirect
    /\ last.out.status = "ok"
    /\ params.separation > 0
    /\ last.out.nb_group1 = 1
    /\ Len(last.out.calls) = 2
    /\ last.out.calls[2].start_straight_length = params.start_straight_length
    /\ last.out.calls[2].end_straight_length = last.out.calls[1].end_straight_length

\* C14: in a direct call that returns, the base end straight length and
\* the base start straight length are both extended by the longitudinal
\* offset between the two port sets, and that offset does not depend on
\* which port is first in ports1 or in ports2: measured from any start
\* port q1 to any end port q2 it gives the lengths the first call got.
C14_OffsetFromBounds ==
    (Udirect /\ last.out.status = "ok") =>
        \A q1 \in Range(last.ports1_before), q2 \in Range(last.ports2_before) :
            /\ last.out.calls[1].end_straight_length
                   = max({DefaultStraightLength, udirect_offset(<<q1>>, <<q2>>)})
                     + params.end_straight_length
            /\ last.out.calls[1].start_straight_length
                   = max({params.start_straight_length, udirect_offset(<<q1>>, <<q2>>)})

----------------------------------------------------------------------------
\* Stitching and merging

\* The last point of the last fragment of a route.
RouteEnd(route) == route[Len(route)][Len(route[Len(route)])]

\* C15: a call of add_connections either fails with the invariant
\* violation error or appends every fragment of its batch to the one route
\* whose last point is the fragment's first point: no fragment is left
\* out, and every route has got exactly one fragment of the batch, which
\* starts where the route ended.
C15_NoSilentDrop ==
    (last.fn = "add_connections") =>
        \/ last.status = "InvariantViolation"
        \/ \A i \in DOMAIN last.dict_connections :
              /\ Len(last.dict_connections[i]) = Len(last.dict_before[i]) + 1
              /\ same_point(last.dict_connections[i][Len(last.dict_connections[i])][1],
                            RouteEnd(last.dict_before[i]))
              /\ \E k \in DOMAIN last.conns :
                    last.conns[k] = last.dict_connections[i][Len(last.dict_connections[i])]

\* Some fragment after the first does not start where the fragment before
\* it ends.
Mismatch(list_of_points) ==
    \E k \in 2..Len(list_of_points) :
        ~same_point(list_of_points[k][1],
                    list_of_points[k - 1][Len(list_of_points[k - 1])])

\* C16: when the fragments of a route are merged and the first point of a
\* fragment does not coincide with the last point of the fragment before
\* it, the merge fails with the invariant violation error; it does not
\* return a path that leaves the point out.
C16_MergeChecksJoints ==
    (last.fn = "_merge_connections") =>
        ((\E i \in DOMAIN last.dict_connections : Mismatch(last.dict_connections[i]))
            => last.status = "InvariantViolation")

----------------------------------------------------------------------------
\* The third stage of the indirect router

\* The sort key on the perpendicular coordinate for start ports of
\* orientation o.
PerpKey(o) == IF o \in {0, 180} THEN "y" ELSE "x"

\* C17: in an indirect call that reaches the third stage with both groups
\* in use, the nested direct call of group1 is handed the first
\* len(group1) ports of ports2 sorted on the perpendicular coordinate (y
\* for start ports at 0 or 180, x for 90 or 270), and the call of group2
\* the remaining ports.
C17_SortsOnPerpendicular ==
    (Uindirect /\ Len(last.out.direct) = 2) =>
        LET o == last.ports1_before[1].orientation
            sorted == sort(last.ports2_before, PerpKey(o))
            n1 == Len(last.out.group1)
        IN /\ Range(last.out.direct[1].ports2_arg) = Range(slice(sorted, 0, n1))
           /\ Range(last.out.direct[2].ports2_arg) = Range(slice(sorted, n1, Len(sorted)))

\* The request of the last call is uniform and its orientation pair is one
\* of the four the indirect router has a plan for.
SupportedRequest ==
    /\ UniformRequest
    /\ <<last.ports1_before[1].orientation,
         last.ports2_before[1].orientation>> \in SupportedPairs

\* How many of the two groups of the split hold a port.
GroupsInUse(out) ==
    (IF out.group1 # <<>> THEN 1 ELSE 0) + (IF out.group2 # <<>> THEN 1 ELSE 0)

\* C18: every indirect call ends, returned or raised, after a fixed
\* sequence of steps: none or all four of the side routings (two per
\* group), then at most one direct-router call per group that has ports,
\* then the merge. A supported request returns after the four side
\* routings and exactly one direct call per group in use. A nested direct
\* call calls only the single-pair router, once per port it was handed:
\* it holds no side routing and no router call of its own, so the nesting
\* depth is one.
C18_FixedSequenceOfSteps ==
    Uindirect =>
        /\ last.out.status \in {"ok", "CountMismatch", "MixedOrientation",
                                 "IndexError", "UnboundLocalError"}
        /\ last.out.side_calls \in {0, 4}
        /\ Len(last.out.direct) <= 2
        /\ last.out.direct # <<>> => last.out.side_calls = 4
        /\ SupportedRequest =>
              /\ last.out.status = "ok"
              /\ last.out.side_calls = 4
              /\ Len(last.out.direct) = GroupsInUse(last.out)
              /\ Len(last.out.connections) = Len(last.ports1_before)
        /\ \A n \in DOMAIN last.out.direct :
              /\ {"direct", "side_calls"} \cap DOMAIN last.out.direct[n] = {}
              /\ Len(last.out.direct[n].calls) = Len(last.out.direct[n].ports2_arg)

\* An indirect call on a supported request whose start ports all fell in
\* one group: it returned after one nested direct call of two tracks.
C18_Witness ==
    /\ Uindirect
    /\ SupportedRequest
    /\ last.out.status = "ok"
    /\ GroupsInUse(last.out) = 1
    /\ Len(last.out.direct) = 1
    /\ Len(last.out.direct[1].calls) = 2

----------------------------------------------------------------------------
\* The pairing of the direct router

\* The calls of a direct result pair the ports of p1 and of p2 one to one:
\* every port of p1 is the start of exactly one call and every port of p2
\* the end of exactly one.
OneToOne(out, p1, p2) ==
    /\ \A i \in DOMAIN p1 :
          Cardinality({k \in DOMAIN out.calls : out.calls[k].p_start = p1[i]}) = 1
    /\ \A j \in DOMAIN p2 :
          Cardinality({k \in DOMAIN out.calls : out.calls[k].p_end = p2[j]}) = 1

\* C19: a direct call on a request that passes validation (N >= 1 ports
\* in each list, one orientation over all of them) returns, its end groups
\* have the sizes of its groups, every port of ports1 starts exactly one
\* single-pair call and every port of ports2 ends exactly one, and exactly
\* N paths are returned, one group empty or not.
C19_PairingIsBijection ==
    (/\ Udirect
     /\ UniformRequest
     /\ Orients(last.ports1_before) = Orients(last.ports2_before)) =>
        /\ last.out.status = "ok"
        /\ Len(last.out.end_group1) = Len(last.out.group1)
        /\ Len(last.out.end_group2) = Len(last.out.group2)
        /\ OneToOne(last.out, last.ports1_before, last.ports2_before)
        /\ Len(last.out.calls) = Len(last.ports1_before)
        /\ Len(last.out.connections) = Len(last.ports1_before)

\* A direct call of two ports that passed validation with group1 empty:
\* both paths were routed in group2.
C19_Witness ==
    /\ Udirect
    /\ last.out.status = "ok"
    /\ Len(last.ports1_before) = 2
    /\ last.out.group1 = <<>>
    /\ Len(last.out.connections) = 2

----------------------------------------------------------------------------
\* The side-routing plan

\* C20: for each of the four supported orientation pairs the second
\* side-routing direction is the same for both groups and is the
\* orientation of ports2 (east 0, north 90, west 180, south 270); in an
\* indirect call on a supported request every nested direct call is
\* handed start ports of the orientation of ports2 and does not fail its
\* orientation validation.
C20_SecondSideFacesPorts2 ==
    /\ \A pair \in SupportedPairs :
          /\ route_directives(pair[1], pair[2]).group1[2]
                 = route_directives(pair[1], pair[2]).group2[2]
          /\ side_angle(route_directives(pair[1], pair[2]).group1[2]) = pair[2]
    /\ (Uindirect /\ SupportedRequest) =>
          /\ last.out.direct # <<>>
          /\ \A n \in DOMAIN last.out.direct :
                /\ last.out.direct[n].status = "ok"
                /\ \A k \in DOMAIN last.out.direct[n].calls :
                      /\ last.out.direct[n].calls[k].p_start.orientation
                             = last.ports2_before[1].orientation
                      /\ last.out.direct[n].calls[k].p_end.orientation
                             = last.ports2_before[1].orientation

\* An indirect call on start ports at 90 and end ports at 270 with both
\* groups in use: both nested direct calls passed their validation.
C20_Witness ==
    /\ Uindirect
    /\ SupportedRequest
    /\ last.ports1_before[1].orientation = 90
    /\ Len(last.out.direct) = 2
    /\ last.out.direct[1].status = "ok"
    /\ last.out.direct[2].status = "ok"

----------------------------------------------------------------------------
\* The caller's end_straight_length

\* C21: with d the offset the direct router computes between the two sets,
\* a call of get_bundle_udirect gives its first track the end straight
\* length max(0.01, d) + end_straight_length (the caller's value added
\* after the maximum), and a direct call nested in the indirect router
\* gives its first track max(end_straight_length, d) (the caller's value
\* as the lower bound of the maximum); in both the first track's end
\* straight length is at least d and, for end_straight_length >= 0, at
\* least end_straight_length.
C21_OffsetOrLowerBound ==
    /\ (Udirect /\ last.out.status = "ok") =>
          /\ last.out.offset = udirect_offset(last.ports1_before, last.ports2_before)
          /\ last.out.calls[1].end_straight_length
                 = max({DefaultStraightLength, last.out.offset}) + params.end_straight_length
          /\ last.out.calls[1].end_straight_length >= last.out.offset
          /\ params.end_straight_length >= 0 =>
                last.out.calls[1].end_straight_length >= params.end_straight_length
    /\ Uindirect =>
          \A n \in DOMAIN last.out.direct :
              last.out.direct[n].status = "ok" =>
                  /\ last.out.direct[n].calls[1].end_straight_length
                         = max({params.end_straight_length, last.out.direct[n].offset})
                  /\ last.out.direct[n].calls[1].end_straight_length
                         >= last.out.direct[n].offset
                  /\ params.end_straight_length >= 0 =>
                        last.out.direct[n].calls[1].end_straight_length
                            >= params.end_straight_length

\* A call of get_bundle_udirect with end_straight_length 15 and an offset
\* above the default: its first track got offset + 15, more than the
\* maximum of the two.
C21_Witness ==
    /\ Udirect
    /\ last.out.status = "ok"
    /\ params.end_straight_length = 1500
    /\ last.out.offset > DefaultStraightLength
    /\ last.out.calls[1].end_straight_length = last.out.offset + 1500

\* An indirect call with end_straight_length 200 whose nested direct call
\* computed a smaller offset: its first track got 200, the lower bound.
C21_WitnessNested ==
    /\ Uindirect
    /\ params.end_straight_length = 20000
    /\ last.out.direct # <<>>
    /\ last.out.direct[1].status = "ok"
    /\ last.out.direct[1].offset < 20000
    /\ last.out.direct[1].calls[1].end_straight_length = 20000

====
